---- MODULE Spec2Model ----
(***************************************************************************)
(* Circuit-cutting graph engine of pennylane/cut/place.py.                 *)
(*                                                                         *)
(* A circuit DAG is a networkx DiGraph.  It is modelled as a record        *)
(*    [nodes |-> sequence of nodes, edges |-> sequence of edges]           *)
(* where both sequences are in insertion order: networkx keeps its nodes   *)
(* and its adjacency in insertion-ordered dicts, and the code reads that   *)
(* order (tuple(g.nodes), list(g.predecessors(n))[-1], ...).  The order of *)
(* the successors of u is the order of the edges leaving u in `edges`,     *)
(* the order of the predecessors of v the order of the edges entering v.   *)
(*                                                                         *)
(* A node is a record [id, kind, wires]: `id` stands for the identity of   *)
(* the Python object (operators hash by identity), `kind` for its class,   *)
(* `wires` for its ordered wires.  An edge is [u, v, type, pair,           *)
(* contraction]: the attribute dict of the edge, "None"/<<>>/{} standing   *)
(* for an absent key.                                                      *)
(*                                                                         *)
(* Spec runs apply_cuts, place_cuts and disconnect_graph on the graphs of  *)
(* tapes; SpecTape runs dag_to_tape on any small directed graph; SpecDag   *)
(* runs get_dag on tapes with a plain or a tensor-product observable;      *)
(* SpecFermionic runs fermionic_one of pennylane/hf/dipole.py; SpecSites   *)
(* runs the wire-cut loop of place_cuts on a site; SpecTask runs           *)
(* DefaultTask.batch_execute of pennylane/devices/default_qubit_task.py.   *)
(***************************************************************************)
EXTENDS Integers, Sequences, FiniteSets

\* Longest tape (number of operations) the model starts from.
MaxOps == 5
\* Largest number of WireCut/GateCut placeholders in a tape.
MaxCuts == 2

\* Longest list of circuits handed to batch_execute, and the number of circuits.
MaxCircuits == 3

\* Rotations tried for the enumeration order of a Python set (see list_of).
MaxRot == 3

\* Largest wire_capacity and gate_capacity handed to place_cuts.
MaxCapacity == 2

\* Most nodes of a graph handed to dag_to_tape.
MaxNodes == 3

\* Longest tape (number of operations, the observable apart) handed to get_dag.
MaxDagOps == 3

\* Most molecular orbitals (rows of `integral`) handed to fermionic_one.
MaxOrbitals == 2
\* The constant and the integrals are whole multiples of one unit, from -MaxValue
\* to MaxValue; the cutoff is from 0 to MaxValue.
MaxValue == 2

\* The wires of the tapes.
Wires == {0, 1}

-----------------------------------------------------------------------------
(* Sequences *)

SeqToSet(s) == {s[i] : i \in 1..Len(s)}

InSeq(x, s) == \E i \in 1..Len(s) : s[i] = x

Last(s) == s[Len(s)]

RECURSIVE Reverse(_)
Reverse(s) == IF s = <<>> THEN <<>> ELSE Append(Reverse(Tail(s)), Head(s))

\* s rotated left by k places.
Rotate(s, k) ==
    IF s = <<>> THEN s
    ELSE LET r == k % Len(s)
         IN  SubSeq(s, r + 1, Len(s)) \o SubSeq(s, 1, r)

-----------------------------------------------------------------------------
(* Node variants (pennylane.cut.mark and pennylane.operation) *)

Operation(i, w)   == [id |-> i, kind |-> "Operation",     wires |-> w]
WireCut(i, w)     == [id |-> i, kind |-> "WireCut",       wires |-> w]
GateCut(i, w)     == [id |-> i, kind |-> "GateCut",       wires |-> w]
MeasureNode(i, wire)   == [id |-> i, kind |-> "MeasureNode",   wires |-> <<wire>>]
PrepareNode(i, wire)   == [id |-> i, kind |-> "PrepareNode",   wires |-> <<wire>>]
OperationNode(i, wire) == [id |-> i, kind |-> "OperationNode", wires |-> <<wire>>]

\* isinstance(n, K)
isinstance(n, K) == n.kind = K

\* `wire in n.wires`
WireIn(wire, n) == InSeq(wire, n.wires)

-----------------------------------------------------------------------------
(* networkx.DiGraph *)

EmptyGraph == [nodes |-> <<>>, edges |-> <<>>]

NoPair == <<>>

Edge(u, v, t, p) == [u |-> u, v |-> v, type |-> t, pair |-> p, contraction |-> {}]

NodeSet(g) == SeqToSet(g.nodes)

EdgeSet(g) == SeqToSet(g.edges)

has_node(g, n) == InSeq(n, g.nodes)

has_edge(g, u, v) == \E i \in 1..Len(g.edges) : g.edges[i].u = u /\ g.edges[i].v = v

add_node(g, n) == IF has_node(g, n) THEN g ELSE [g EXCEPT !.nodes = Append(@, n)]

\* g.add_edge(u, v): an edge without attributes; an existing edge is kept as it is.
add_edge(g, u, v) ==
    LET g1 == add_node(add_node(g, u), v)
    IN  IF has_edge(g1, u, v) THEN g1
        ELSE [g1 EXCEPT !.edges = Append(@, Edge(u, v, "None", NoPair))]

\* g.add_edge(u, v, type=t, pair=p): an existing edge has the two keys updated.
add_edge_attr(g, u, v, t, p) ==
    LET g1 == add_node(add_node(g, u), v)
    IN  IF has_edge(g1, u, v)
        THEN [g1 EXCEPT !.edges =
                 [i \in 1..Len(@) |->
                     IF @[i].u = u /\ @[i].v = v
                     THEN [@[i] EXCEPT !.type = t, !.pair = p]
                     ELSE @[i]]]
        ELSE [g1 EXCEPT !.edges = Append(@, Edge(u, v, t, p))]

remove_node(g, n) ==
    [nodes |-> SelectSeq(g.nodes, LAMBDA m : m # n),
     edges |-> SelectSeq(g.edges, LAMBDA e : e.u # n /\ e.v # n)]

remove_edge(g, u, v) ==
    [g EXCEPT !.edges = SelectSeq(@, LAMBDA e : ~(e.u = u /\ e.v = v))]

in_edges(g, n) == SelectSeq(g.edges, LAMBDA e : e.v = n)

out_edges(g, n) == SelectSeq(g.edges, LAMBDA e : e.u = n)

predecessors(g, n) == LET es == in_edges(g, n) IN [i \in 1..Len(es) |-> es[i].u]

successors(g, n) == LET es == out_edges(g, n) IN [i \in 1..Len(es) |-> es[i].v]

\* G.copy(): the nodes in order, then the edges re-added source by source (in node
\* order), so the successors keep their order and the predecessors of a node come
\* out in the order of their sources.
RECURSIVE CopyEdges(_, _)
CopyEdges(g, k) ==
    IF k > Len(g.nodes) THEN <<>>
    ELSE out_edges(g, g.nodes[k]) \o CopyEdges(g, k + 1)

copy(g) == [nodes |-> g.nodes, edges |-> CopyEdges(g, 1)]

\* Fault: a name that still refers to the caller's object (no .copy()): what is
\* written through the name is written to the caller's object.
Rebound_aliased(obj, written) == written

\* `name = name.copy()` (lines 31, 87): the name is rebound to a new object, and the
\* object it referred to, obj, is out of reach of what is later written through the
\* name (written: the copy after those writes).
Rebound(obj, written) == obj

-----------------------------------------------------------------------------
(* The tape and its circuit graph (pennylane.tape, pennylane.circuit_graph) *)

WireTuples1 == {<<w>> : w \in Wires}

WireTuples2 == {<<a, b>> : a, b \in Wires} \ {<<w, w>> : w \in Wires}

\* What a tape can hold: operations on one or two wires, WireCut placeholders on
\* one wire, GateCut placeholders on one or two wires (two wires in ascending order).
TapeOps ==
    {[kind |-> "Operation", wires |-> w] : w \in WireTuples1 \cup {t \in WireTuples2 : t[1] < t[2]}}
    \cup {[kind |-> "WireCut", wires |-> w] : w \in WireTuples1}
    \cup {[kind |-> "GateCut", wires |-> w] : w \in WireTuples1 \cup {t \in WireTuples2 : t[1] < t[2]}}

IsCut(op) == op.kind \in {"WireCut", "GateCut"}

NumCuts(t) == Cardinality({i \in 1..Len(t) : IsCut(t[i])})

Tapes == {t \in UNION {[1..n -> TapeOps] : n \in 0..MaxOps} : NumCuts(t) <= MaxCuts}

\* The i-th operation of the tape as a graph node.
TapeNode(t, i) == [id |-> i, kind |-> t[i].kind, wires |-> t[i].wires]

TapeNodes(t) == [i \in 1..Len(t) |-> TapeNode(t, i)]

\* The wires of the tape in the order in which the operations first use them.
RECURSIVE Dedupe(_)
Dedupe(s) ==
    IF s = <<>> THEN <<>>
    ELSE LET r == Dedupe(SubSeq(s, 1, Len(s) - 1))
         IN  IF InSeq(Last(s), r) THEN r ELSE Append(r, Last(s))

RECURSIVE AllWires(_, _)
AllWires(t, k) == IF k > Len(t) THEN <<>> ELSE t[k].wires \o AllWires(t, k + 1)

GridWires(t) == Dedupe(AllWires(t, 1))

\* One wire of the grid: its first operation becomes a node, every later one is
\* joined to the operation before it on the wire.
RECURSIVE AddWire(_, _, _)
AddWire(g, ops, k) ==
    IF k > Len(ops) THEN g
    ELSE IF k = 1 THEN AddWire(add_node(g, ops[1]), ops, 2)
    ELSE AddWire(add_edge(g, ops[k - 1], ops[k]), ops, k + 1)

RECURSIVE AddWires(_, _, _, _)
AddWires(g, t, ws, k) ==
    IF k > Len(ws) THEN g
    ELSE AddWires(AddWire(g, SelectSeq(TapeNodes(t), LAMBDA n : WireIn(ws[k], n)), 1),
                  t, ws, k + 1)

CircuitGraph(t) == AddWires(EmptyGraph, t, GridWires(t), 1)

\* The observable of the tape's one measurement as get_dag reads it: the node that
\* stands for it in the tape's graph and, for a Tensor, its terms (obs.obs).
\* NoObs: the observable is no Tensor; it is a node of the graph like an operation.
NoObs == [node |-> [id |-> 0, kind |-> "None", wires |-> <<>>], terms |-> <<>>]

\* Fault: lines 103-106 without the test of line 105.
RECURSIVE TermPredecessors_any(_, _, _)
TermPredecessors_any(t, preds, k) ==
    IF k > Len(t.wires) THEN <<>>
    ELSE preds \o TermPredecessors_any(t, preds, k + 1)

\* Lines 103-105: the p of `for wire in t.wires: for p in predecessors:
\* if wire in p.wires`, in the order of the loops.
RECURSIVE TermPredecessors(_, _, _)
TermPredecessors(t, preds, k) ==
    IF k > Len(t.wires) THEN <<>>
    ELSE SelectSeq(preds, LAMBDA p : WireIn(t.wires[k], p))
         \o TermPredecessors(t, preds, k + 1)

\* Line 106 for one term t.
RECURSIVE AttachTerm(_, _, _, _)
AttachTerm(g, ps, t, k) ==
    IF k > Len(ps) THEN g ELSE AttachTerm(add_edge(g, ps[k], t), ps, t, k + 1)

\* Lines 101-106.
RECURSIVE AddTerms(_, _, _, _)
AddTerms(g, terms, preds, k) ==
    IF k > Len(terms) THEN g
    ELSE AddTerms(AttachTerm(add_node(g, terms[k]),
                             TermPredecessors(terms[k], preds, 1), terms[k], 1),
                  terms, preds, k + 1)

\* get_dag(tape), with graph = tape.graph.graph and obs the observable of the tape's
\* measurement.  [g, graph]: the returned graph, and the tape's graph object as the
\* call leaves it.
get_dag(graph, obs) ==
    LET g0 == copy(graph)
        g1 == IF isinstance(obs.node, "Tensor")
              THEN AddTerms(remove_node(g0, obs.node), obs.terms,
                            predecessors(g0, obs.node), 1)
              ELSE g0
    IN  [g |-> g1, graph |-> Rebound(graph, g1)]

-----------------------------------------------------------------------------
(* _remove_wire_cut_node, _remove_gate_cut_node *)

\* The pairs (p, wire) of `for p in ps: for wire in p.wires: if wire in n.wires`.
RECURSIVE WirePairs(_, _, _)
WirePairs(ps, n, k) ==
    IF k > Len(ps) THEN <<>>
    ELSE LET ws == SelectSeq(ps[k].wires, LAMBDA w : WireIn(w, n))
         IN  [j \in 1..Len(ws) |-> [node |-> ps[k], wire |-> ws[j]]]
             \o WirePairs(ps, n, k + 1)

\* A dict as a sequence of [key, val] in insertion order.
DictHas(d, key) == \E i \in 1..Len(d) : d[i].key = key

DictGet(d, key) == d[CHOOSE i \in 1..Len(d) : d[i].key = key].val

DictPut(d, key, val) ==
    IF DictHas(d, key)
    THEN [i \in 1..Len(d) |-> IF d[i].key = key THEN [key |-> key, val |-> val] ELSE d[i]]
    ELSE Append(d, [key |-> key, val |-> val])

\* Lines 160-166: one MeasureNode per pair, after its predecessor.
RECURSIVE AddMeasures(_, _, _, _)
AddMeasures(st, pw, k, fresh) ==
    IF k > Len(pw) THEN st
    ELSE LET op == MeasureNode(fresh + k - 1, pw[k].wire)
         IN  AddMeasures([g |-> add_edge(add_node(st.g, op), pw[k].node, op),
                          dict |-> DictPut(st.dict, pw[k].wire, op)],
                         pw, k + 1, fresh)

\* Lines 168-174: one PrepareNode per pair, before its successor.
RECURSIVE AddPrepares(_, _, _, _)
AddPrepares(st, pw, k, fresh) ==
    IF k > Len(pw) THEN st
    ELSE LET op == PrepareNode(fresh + k - 1, pw[k].wire)
         IN  AddPrepares([g |-> add_edge(add_node(st.g, op), op, pw[k].node),
                          dict |-> DictPut(st.dict, pw[k].wire, op)],
                         pw, k + 1, fresh)

\* Lines 176-179: prepare_wires[wire] raises KeyError for a wire without a PrepareNode.
RECURSIVE PairUp(_, _, _, _)
PairUp(g, measure_wires, prepare_wires, k) ==
    IF k > Len(measure_wires) THEN [g |-> g, raised |-> FALSE]
    ELSE LET wire == measure_wires[k].key
             measure == measure_wires[k].val
         IN  IF ~DictHas(prepare_wires, wire) THEN [g |-> g, raised |-> TRUE]
             ELSE LET prepare == DictGet(prepare_wires, wire)
                  IN  PairUp(add_edge_attr(g, measure, prepare, "wire_cut",
                                           <<measure, prepare>>),
                             measure_wires, prepare_wires, k + 1)

\* [g, raised, fresh]: the graph as the call leaves it, whether it raised, and the
\* next unused node identity.
_remove_wire_cut_node(n, g, fresh) ==
    LET preds == predecessors(g, n)
        succs == successors(g, n)
        g1 == remove_node(g, n)
        pwM == WirePairs(preds, n, 1)
        pwP == WirePairs(succs, n, 1)
        m  == AddMeasures([g |-> g1, dict |-> <<>>], pwM, 1, fresh)
        p  == AddPrepares([g |-> m.g, dict |-> <<>>], pwP, 1, fresh + Len(pwM))
        r  == PairUp(p.g, m.dict, p.dict, 1)
    IN  [g |-> r.g, raised |-> r.raised, fresh |-> fresh + Len(pwM) + Len(pwP)]

\* Fault: line 203 with [0] for [-1]: the first predecessor on the wire.
RECURSIVE GateWires_first(_, _, _, _, _, _)
GateWires_first(st, n, preds, succs, k, fresh) ==
    IF k > Len(n.wires) THEN st
    ELSE LET wire == n.wires[k]
             ps == SelectSeq(preds, LAMBDA p : WireIn(wire, p))
             ss == SelectSeq(succs, LAMBDA s : WireIn(wire, s))
         IN  IF ps = <<>> \/ ss = <<>> THEN [st EXCEPT !.raised = TRUE]
             ELSE LET op == OperationNode(fresh + k - 1, wire)
                  IN  GateWires_first(
                          [g |-> add_edge(add_edge(add_node(st.g, op), Head(ps), op),
                                          op, Head(ss)),
                           op_nodes |-> Append(st.op_nodes, op),
                           raised |-> FALSE],
                          n, preds, succs, k + 1, fresh)

\* Fault: lines 207-208 with the OperationNode spliced in backwards.
RECURSIVE GateWires_backwards(_, _, _, _, _, _)
GateWires_backwards(st, n, preds, succs, k, fresh) ==
    IF k > Len(n.wires) THEN st
    ELSE LET wire == n.wires[k]
             ps == SelectSeq(preds, LAMBDA p : WireIn(wire, p))
             ss == SelectSeq(succs, LAMBDA s : WireIn(wire, s))
         IN  IF ps = <<>> \/ ss = <<>> THEN [st EXCEPT !.raised = TRUE]
             ELSE LET op == OperationNode(fresh + k - 1, wire)
                  IN  GateWires_backwards(
                          [g |-> add_edge(add_edge(add_node(st.g, op), Head(ss), op),
                                          op, Last(ps)),
                           op_nodes |-> Append(st.op_nodes, op),
                           raised |-> FALSE],
                          n, preds, succs, k + 1, fresh)

\* Lines 202-209: [...][-1] and [...][0] raise IndexError on an empty list.
RECURSIVE GateWires(_, _, _, _, _, _)
GateWires(st, n, preds, succs, k, fresh) ==
    IF k > Len(n.wires) THEN st
    ELSE LET wire == n.wires[k]
             ps == SelectSeq(preds, LAMBDA p : WireIn(wire, p))
             ss == SelectSeq(succs, LAMBDA s : WireIn(wire, s))
         IN  IF ps = <<>> \/ ss = <<>> THEN [st EXCEPT !.raised = TRUE]
             ELSE LET p_wire == Last(ps)
                      s_wire == Head(ss)
                      op == OperationNode(fresh + k - 1, wire)
                  IN  GateWires([g |-> add_edge(add_edge(add_node(st.g, op), p_wire, op),
                                                op, s_wire),
                                 op_nodes |-> Append(st.op_nodes, op),
                                 raised |-> FALSE],
                                n, preds, succs, k + 1, fresh)

\* itertools.combinations(s, r=2), in its order.
combinations2(s) ==
    LET RECURSIVE From(_, _)
        From(i, j) ==
            IF i >= Len(s) THEN <<>>
            ELSE IF j > Len(s) THEN From(i + 1, i + 2)
            ELSE <<(<<s[i], s[j]>>)>> \o From(i, j + 1)
    IN  From(1, 2)

RECURSIVE AddGateCutEdges(_, _, _)
AddGateCutEdges(g, prs, k) ==
    IF k > Len(prs) THEN g
    ELSE AddGateCutEdges(add_edge_attr(g, prs[k][1], prs[k][2], "gate_cut", prs[k]),
                         prs, k + 1)

_remove_gate_cut_node(n, g, fresh) ==
    LET preds == predecessors(g, n)
        succs == successors(g, n)
        g1 == remove_node(g, n)
        st == GateWires([g |-> g1, op_nodes |-> <<>>, raised |-> FALSE],
                        n, preds, succs, 1, fresh)
    IN  IF st.raised
        THEN [g |-> st.g, raised |-> TRUE, fresh |-> fresh + Len(st.op_nodes)]
        ELSE [g |-> AddGateCutEdges(st.g, combinations2(st.op_nodes), 1),
              raised |-> FALSE, fresh |-> fresh + Len(st.op_nodes)]

-----------------------------------------------------------------------------
(* find_cuts, place_cuts *)

\* Lines 125-132: whatever the graph and the capacities, no cut is chosen.
find_cuts(g, wire_capacity, gate_capacity) ==
    [wire_cuts |-> <<>>, gate_cuts |-> <<>>, opt_results |-> <<>>]

\* Lines 138-139.
RECURSIVE PlaceGateCuts(_, _, _)
PlaceGateCuts(st, gate_cuts, k) ==
    IF k > Len(gate_cuts) \/ st.raised THEN st
    ELSE PlaceGateCuts(_remove_gate_cut_node(gate_cuts[k], st.g, st.fresh), gate_cuts, k + 1)

\* Lines 141-148: a MeasureNode after op1 and a PrepareNode before op2, paired.
RECURSIVE PlaceWireCuts(_, _, _)
PlaceWireCuts(st, wire_cuts, k) ==
    IF k > Len(wire_cuts) \/ st.raised THEN st
    ELSE LET meas == MeasureNode(st.fresh, wire_cuts[k].wire)
             prep == PrepareNode(st.fresh + 1, wire_cuts[k].wire)
             g1 == add_node(add_node(st.g, meas), prep)
             g2 == add_edge(add_edge(g1, wire_cuts[k].op1, meas), prep, wire_cuts[k].op2)
         IN  PlaceWireCuts([g |-> add_edge_attr(g2, meas, prep, "wire_cut", <<meas, prep>>),
                            raised |-> FALSE,
                            fresh |-> st.fresh + 2],
                           wire_cuts, k + 1)

\* [g, raised, fresh] as place_cuts leaves them; it returns nothing.
place_cuts(g, wire_capacity, gate_capacity, fresh) ==
    LET cuts == find_cuts(g, wire_capacity, gate_capacity)
        gc == PlaceGateCuts([g |-> g, raised |-> FALSE, fresh |-> fresh], cuts.gate_cuts, 1)
    IN  PlaceWireCuts(gc, cuts.wire_cuts, 1)

-----------------------------------------------------------------------------
(* networkx algorithms used by disconnect_graph *)

in_degree(g, n) == Len(in_edges(g, n))

\* The successors of the nodes of one generation, in the order the loop visits them.
RECURSIVE Children(_, _, _)
Children(g, gen, k) ==
    IF k > Len(gen) THEN <<>>
    ELSE successors(g, gen[k]) \o Children(g, gen, k + 1)

RECURSIVE Relax(_, _, _)
Relax(st, kids, k) ==
    IF k > Len(kids) THEN st
    ELSE LET d == st.indegree_map[kids[k]] - 1
         IN  Relax([indegree_map |-> [st.indegree_map EXCEPT ![kids[k]] = d],
                    zero_indegree |-> IF d = 0 THEN Append(st.zero_indegree, kids[k])
                                      ELSE st.zero_indegree],
                   kids, k + 1)

RECURSIVE Generations(_, _, _)
Generations(g, indegree_map, gen) ==
    IF gen = <<>> THEN <<>>
    ELSE LET st == Relax([indegree_map |-> indegree_map, zero_indegree |-> <<>>],
                         Children(g, gen, 1), 1)
         IN  gen \o Generations(g, st.indegree_map, st.zero_indegree)

\* nx.topological_sort (networkx 2.6: the generations of Kahn's algorithm, each in
\* the order its nodes lost their last incoming edge).  On a graph with a cycle the
\* nodes on and after the cycle are missing and networkx raises NetworkXUnfeasible.
topological_sort(g) ==
    Generations(g, [n \in NodeSet(g) |-> in_degree(g, n)],
                SelectSeq(g.nodes, LAMBDA n : in_degree(g, n) = 0))

is_directed_acyclic_graph(g) == Len(topological_sort(g)) = Len(g.nodes)

RECURSIVE Component(_, _)
Component(g, S) ==
    LET T == S \cup {e.v : e \in {f \in EdgeSet(g) : f.u \in S}}
               \cup {e.u : e \in {f \in EdgeSet(g) : f.v \in S}}
    IN  IF T = S THEN S ELSE Component(g, T)

RECURSIVE Components(_, _, _)
Components(g, k, seen) ==
    IF k > Len(g.nodes) THEN <<>>
    ELSE IF g.nodes[k] \in seen THEN Components(g, k + 1, seen)
    ELSE LET c == Component(g, {g.nodes[k]})
         IN  <<c>> \o Components(g, k + 1, seen \cup c)

\* nx.weakly_connected_components: the node sets, in the order in which the node
\* order of g first meets them.
weakly_connected_components(g) == Components(g, 1, {})

\* The attribute dict of an edge.
Data(e) == [type |-> e.type, pair |-> e.pair, contraction |-> e.contraction]

\* Fault: the loop of nx.contracted_nodes as networkx < 2.5 had it (add_edges_from):
\* an edge that lands on an existing edge overwrites its attributes.
RECURSIVE Remap_overwrite(_, _, _, _, _)
Remap_overwrite(H, es, k, u, v) ==
    IF k > Len(es) THEN H
    ELSE LET w == IF es[k].u # v THEN es[k].u ELSE u
             x == IF es[k].v # v THEN es[k].v ELSE u
         IN  IF ~has_edge(H, w, x)
             THEN Remap_overwrite(
                      [H EXCEPT !.edges = Append(@, [es[k] EXCEPT !.u = w, !.v = x])],
                      es, k + 1, u, v)
             ELSE Remap_overwrite(
                      [H EXCEPT !.edges =
                          [i \in 1..Len(@) |->
                              IF @[i].u = w /\ @[i].v = x
                              THEN [es[k] EXCEPT !.u = w, !.v = x]
                              ELSE @[i]]],
                      es, k + 1, u, v)

\* The loop of nx.contracted_nodes over edges_to_remap (networkx >= 2.5): an edge
\* that lands on an existing edge of H is recorded in that edge's "contraction"
\* attribute under its old end points; self loops are kept (self_loops=True).
RECURSIVE Remap(_, _, _, _, _)
Remap(H, es, k, u, v) ==
    IF k > Len(es) THEN H
    ELSE LET w == IF es[k].u # v THEN es[k].u ELSE u
             x == IF es[k].v # v THEN es[k].v ELSE u
             key == <<es[k].u, es[k].v>>
         IN  IF ~has_edge(H, w, x)
             THEN Remap([H EXCEPT !.edges = Append(@, [es[k] EXCEPT !.u = w, !.v = x])],
                        es, k + 1, u, v)
             ELSE Remap([H EXCEPT !.edges =
                            [i \in 1..Len(@) |->
                                IF @[i].u = w /\ @[i].v = x
                                THEN [@[i] EXCEPT !.contraction =
                                         {c \in @ : c.key # key}
                                         \cup {[key |-> key, d |-> Data(es[k])]}]
                                ELSE @[i]]],
                        es, k + 1, u, v)

\* nx.contracted_nodes(G, u, v) with its defaults (self_loops=True, copy=True).
contracted_nodes(G, u, v) ==
    Remap(remove_node(copy(G), v), in_edges(G, v) \o out_edges(G, v), 1, u, v)

\* nx.relabel_nodes(G, mapping, copy=False), mapping a dict.
relabel_nodes(G, mapping) ==
    LET new(n) == IF DictHas(mapping, n) THEN DictGet(mapping, n) ELSE n
    IN  [nodes |-> [i \in 1..Len(G.nodes) |-> new(G.nodes[i])],
         edges |-> [i \in 1..Len(G.edges) |->
                       [G.edges[i] EXCEPT !.u = new(@), !.v = new(@)]]]

\* nx.subgraph(g, s): the view of g on the nodes s.
subgraph(g, s) ==
    [nodes |-> SelectSeq(g.nodes, LAMBDA n : n \in s),
     edges |-> SelectSeq(g.edges, LAMBDA e : e.u \in s /\ e.v \in s)]

-----------------------------------------------------------------------------
(* dag_to_tape *)

\* Fault: line 184 as `ops = g.nodes`.
dag_to_tape_unsorted(g) ==
    IF is_directed_acyclic_graph(g)
    THEN [raised |-> FALSE, tape |-> g.nodes]
    ELSE [raised |-> TRUE, tape |-> <<>>]

\* Lines 182-190: every node of the topological sort is applied to the new tape, in
\* that order, whatever its class; the sort raises NetworkXUnfeasible on a graph
\* with a cycle, and then no tape is returned.
dag_to_tape(g) ==
    IF is_directed_acyclic_graph(g)
    THEN [raised |-> FALSE, tape |-> topological_sort(g)]
    ELSE [raised |-> TRUE, tape |-> <<>>]

-----------------------------------------------------------------------------
(* disconnect_graph *)

\* Lines 35-44: the MeasureNodes and PrepareNodes of each wire, in topological order.
RECURSIVE MeasPrepOnWire(_, _, _)
MeasPrepOnWire(d, order, k) ==
    IF k > Len(order) THEN d
    ELSE LET n == order[k]
         IN  IF n.kind \in {"MeasureNode", "PrepareNode"}
             THEN MeasPrepOnWire(
                      DictPut(d, n.wires[1],
                              IF DictHas(d, n.wires[1])
                              THEN Append(DictGet(d, n.wires[1]), n) ELSE <<n>>),
                      order, k + 1)
             ELSE MeasPrepOnWire(d, order, k + 1)

\* Fault: lines 46-50 without line 48: qg keeps the edges without a type.
RECURSIVE SplitEdges_keep(_, _, _)
SplitEdges_keep(st, g_edges, k) ==
    IF k > Len(g_edges) THEN st
    ELSE IF g_edges[k].type = "None"
    THEN SplitEdges_keep(st, g_edges, k + 1)
    ELSE SplitEdges_keep([st EXCEPT !.g = remove_edge(@, g_edges[k].u, g_edges[k].v)],
                         g_edges, k + 1)

\* Fault: lines 47-50 with the two branches exchanged.
RECURSIVE SplitEdges_swapped(_, _, _)
SplitEdges_swapped(st, g_edges, k) ==
    IF k > Len(g_edges) THEN st
    ELSE IF g_edges[k].type = "None"
    THEN SplitEdges_swapped([st EXCEPT !.g = remove_edge(@, g_edges[k].u, g_edges[k].v)],
                            g_edges, k + 1)
    ELSE SplitEdges_swapped([st EXCEPT !.qg = remove_edge(@, g_edges[k].u, g_edges[k].v)],
                            g_edges, k + 1)

\* Lines 46-50: g keeps the edges without a type, qg the edges with one.
RECURSIVE SplitEdges(_, _, _)
SplitEdges(st, g_edges, k) ==
    IF k > Len(g_edges) THEN st
    ELSE IF g_edges[k].type = "None"
    THEN SplitEdges([st EXCEPT !.qg = remove_edge(@, g_edges[k].u, g_edges[k].v)],
                    g_edges, k + 1)
    ELSE SplitEdges([st EXCEPT !.g = remove_edge(@, g_edges[k].u, g_edges[k].v)],
                    g_edges, k + 1)

\* Fault: lines 64-70 without the isinstance test of line 65.
RECURSIVE ConnectOrder_unchecked(_, _, _)
ConnectOrder_unchecked(g, order, i) ==
    IF i > Len(order) THEN g
    ELSE IF i + 1 <= Len(order)
    THEN ConnectOrder_unchecked(add_edge(g, order[i], order[i + 1]), order, i + 1)
    ELSE ConnectOrder_unchecked(g, order, i + 1)

\* Lines 64-70 for one `order`: every MeasureNode but a last one is joined to the
\* element after it.
RECURSIVE ConnectOrder(_, _, _)
ConnectOrder(g, order, i) ==
    IF i > Len(order) THEN g
    ELSE IF isinstance(order[i], "MeasureNode") /\ i + 1 <= Len(order)
    THEN ConnectOrder(add_edge(g, order[i], order[i + 1]), order, i + 1)
    ELSE ConnectOrder(g, order, i + 1)

\* Fault: lines 56-70 without the test `n in s` of line 60.
RECURSIVE ConnectWires_unfiltered(_, _, _, _)
ConnectWires_unfiltered(g, s, meas_prep_on_wire, k) ==
    IF k > Len(meas_prep_on_wire) THEN g
    ELSE ConnectWires_unfiltered(ConnectOrder(g, meas_prep_on_wire[k].val, 1),
                                 s, meas_prep_on_wire, k + 1)

\* Lines 56-70 for one subgraph s.
RECURSIVE ConnectWires(_, _, _, _)
ConnectWires(g, s, meas_prep_on_wire, k) ==
    IF k > Len(meas_prep_on_wire) THEN g
    ELSE LET order == SelectSeq(meas_prep_on_wire[k].val, LAMBDA n : n \in s)
         IN  ConnectWires(ConnectOrder(g, order, 1), s, meas_prep_on_wire, k + 1)

\* Lines 55-70.
RECURSIVE ConnectSubgraphs(_, _, _, _)
ConnectSubgraphs(g, subgraph_nodes, meas_prep_on_wire, k) ==
    IF k > Len(subgraph_nodes) THEN g
    ELSE ConnectSubgraphs(ConnectWires(g, subgraph_nodes[k], meas_prep_on_wire, 1),
                          subgraph_nodes, meas_prep_on_wire, k + 1)

\* list(s) for a set s of nodes.  The order in which Python enumerates a set of
\* objects hashed by identity is not fixed by the program: it is a rotation
\* (by rot) of the node order, backwards when rev.
list_of(s, g, rot, rev) ==
    LET inorder == SelectSeq(g.nodes, LAMBDA n : n \in s)
        turned == Rotate(inorder, rot)
    IN  IF rev THEN Reverse(turned) ELSE turned

\* Fault: line 77 as `for n2 in nodes[2:]`.
RECURSIVE ContractAll_skip(_, _, _)
ContractAll_skip(qg, nodes, k) ==
    IF k + 1 > Len(nodes) THEN qg
    ELSE ContractAll_skip(contracted_nodes(qg, nodes[1], nodes[k + 1]), nodes, k + 1)

\* Lines 77-78.
RECURSIVE ContractAll(_, _, _)
ContractAll(qg, nodes, k) ==
    IF k > Len(nodes) THEN qg
    ELSE ContractAll(contracted_nodes(qg, nodes[1], nodes[k]), nodes, k + 1)

\* Fault: line 79 with the fragments counted from 1.
RECURSIVE ContractSubgraphs_from1(_, _, _, _, _, _)
ContractSubgraphs_from1(st, g, subgraph_nodes, k, rot, rev) ==
    IF k > Len(subgraph_nodes) THEN st
    ELSE LET nodes == list_of(subgraph_nodes[k], g, rot, rev)
         IN  ContractSubgraphs_from1([qg |-> ContractAll(st.qg, nodes, 2),
                                      mapping |-> DictPut(st.mapping, nodes[1], k)],
                                     g, subgraph_nodes, k + 1, rot, rev)

\* Lines 72-79.
RECURSIVE ContractSubgraphs(_, _, _, _, _, _)
ContractSubgraphs(st, g, subgraph_nodes, k, rot, rev) ==
    IF k > Len(subgraph_nodes) THEN st
    ELSE LET nodes == list_of(subgraph_nodes[k], g, rot, rev)
         IN  ContractSubgraphs([qg |-> ContractAll(st.qg, nodes, 2),
                                mapping |-> DictPut(st.mapping, nodes[1], k - 1)],
                               g, subgraph_nodes, k + 1, rot, rev)

\* disconnect_graph(g) on an acyclic g.  [g, qg, subgraph_nodes, meas_prep_on_wire,
\* arg]: the function's g at the return (the returned subgraphs are views of it),
\* the returned quotient graph, the two locals the fragments are made from, and
\* the caller's graph object as the call leaves it.
disconnect_graph(g_in, rot, rev) ==
    LET g0 == copy(g_in)
        qg0 == copy(g0)
        g_edges == g0.edges
        meas_prep_on_wire == MeasPrepOnWire(<<>>, topological_sort(g0), 1)
        split == SplitEdges([g |-> g0, qg |-> qg0], g_edges, 1)
        subgraph_nodes == weakly_connected_components(split.g)
        g1 == ConnectSubgraphs(split.g, subgraph_nodes, meas_prep_on_wire, 1)
        c == ContractSubgraphs([qg |-> split.qg, mapping |-> <<>>],
                               split.g, subgraph_nodes, 1, rot, rev)
    IN  [g |-> g1,
         qg |-> relabel_nodes(c.qg, c.mapping),
         subgraph_nodes |-> subgraph_nodes,
         meas_prep_on_wire |-> meas_prep_on_wire,
         arg |-> Rebound(g_in, g1)]

\* The returned subgraphs.
subgraphs(r) == [i \in 1..Len(r.subgraph_nodes) |-> subgraph(r.g, r.subgraph_nodes[i])]

-----------------------------------------------------------------------------
(* State *)

VARIABLES
    tape,     \* the tape the graph was built from
    g,        \* the caller's graph, rewritten in place by apply_cuts
    pc,       \* "ready", "wire_cuts" (line 114), "gate_cuts" (line 120), "done", "raised"
    todo,     \* what is left of the snapshot `nodes` the current loop iterates over
    fresh,    \* identity of the next node object to be constructed
    last,     \* the placeholder the last removal was called on, and the graph before it
    dg,       \* disconnect_graph(g): whether it was called, whether it raised, its result
    pl,       \* place_cuts(g, wire_capacity, gate_capacity): the call and how it ended
    tp,       \* dag_to_tape(g): whether it was called, whether it raised, the tape's operations
    dag,      \* get_dag(tape): the tape's observable and graph object, whether it was called
    fo,       \* fermionic_one(constant, integral, cutoff): its arguments and what it returned
    be        \* DefaultTask.batch_execute(circuits): the device, the call and the client

vars == <<tape, g, pc, todo, fresh, last, dg, pl, tp, dag, fo, be>>

NoResult == [g |-> EmptyGraph, qg |-> EmptyGraph, subgraph_nodes |-> <<>>,
             meas_prep_on_wire |-> <<>>, arg |-> EmptyGraph]

NoNode == [id |-> 0, kind |-> "None", wires |-> <<>>]

NoOperator == [constant |-> 0, integral |-> <<>>, cutoff |-> 0, called |-> FALSE,
               coeffs |-> <<>>, operators |-> <<>>]

\* No DefaultTask device and no call of batch_execute.
NotExecuted ==
    [circuits |-> [kind |-> "None", tapes |-> <<>>], future |-> FALSE, gen_report |-> FALSE,
     fails |-> {}, pc |-> "none", cm |-> "none", idx |-> 0, client |-> <<>>,
     results |-> [list |-> TRUE, items |-> <<>>], calls |-> <<>>,
     ret |-> [list |-> TRUE, items |-> <<>>], error |-> "None"]

NotBuilt == [called |-> FALSE, raised |-> FALSE, tape |-> <<>>]

NotPlaced ==
    [called |-> FALSE, raised |-> FALSE, wire_capacity |-> 0, gate_capacity |-> 0,
     wire_cuts |-> <<>>]

Init ==
    /\ tape \in Tapes
    /\ g = get_dag(CircuitGraph(tape), NoObs).g
    /\ dag = [obs |-> NoObs, graph |-> get_dag(CircuitGraph(tape), NoObs).graph,
              called |-> TRUE]
    /\ fo = NoOperator
    /\ be = NotExecuted
    /\ pc = "ready"
    /\ todo = <<>>
    /\ fresh = Len(tape) + 1
    /\ last = [n |-> NoNode, before |-> EmptyGraph]
    /\ dg = [called |-> FALSE, raised |-> FALSE, ret |-> NoResult]
    /\ pl = NotPlaced
    /\ tp = NotBuilt

\* Fault: apply_cuts without the loop of lines 114-116.
apply_cuts_begin_gates_only ==
    /\ pc = "ready"
    /\ ~dg.called
    /\ ~pl.called
    /\ pc' = "gate_cuts"
    /\ todo' = SelectSeq(g.nodes, LAMBDA n : isinstance(n, "GateCut"))
    /\ UNCHANGED <<tape, g, fresh, last, dg, pl, tp, dag, fo, be>>

\* apply_cuts, line 112: nodes = tuple(g.nodes); the loop only acts on WireCut nodes.
apply_cuts_begin ==
    /\ pc = "ready"
    /\ ~dg.called
    /\ ~pl.called
    /\ pc' = "wire_cuts"
    /\ todo' = SelectSeq(g.nodes, LAMBDA n : isinstance(n, "WireCut"))
    /\ UNCHANGED <<tape, g, fresh, last, dg, pl, tp, dag, fo, be>>

\* Line 116.
wire_cut_step ==
    /\ pc = "wire_cuts"
    /\ todo # <<>>
    /\ LET r == _remove_wire_cut_node(Head(todo), g, fresh)
       IN  /\ g' = r.g
           /\ fresh' = r.fresh
           /\ pc' = IF r.raised THEN "raised" ELSE "wire_cuts"
    /\ last' = [n |-> Head(todo), before |-> g]
    /\ todo' = Tail(todo)
    /\ UNCHANGED <<tape, dg, pl, tp, dag, fo, be>>

\* Line 118: nodes = tuple(g.nodes); the loop only acts on GateCut nodes.
gate_cuts_begin ==
    /\ pc = "wire_cuts"
    /\ todo = <<>>
    /\ pc' = "gate_cuts"
    /\ todo' = SelectSeq(g.nodes, LAMBDA n : isinstance(n, "GateCut"))
    /\ UNCHANGED <<tape, g, fresh, last, dg, pl, tp, dag, fo, be>>

\* Line 122.
gate_cut_step ==
    /\ pc = "gate_cuts"
    /\ todo # <<>>
    /\ LET r == _remove_gate_cut_node(Head(todo), g, fresh)
       IN  /\ g' = r.g
           /\ fresh' = r.fresh
           /\ pc' = IF r.raised THEN "raised" ELSE "gate_cuts"
    /\ last' = [n |-> Head(todo), before |-> g]
    /\ todo' = Tail(todo)
    /\ UNCHANGED <<tape, dg, pl, tp, dag, fo, be>>

apply_cuts_return ==
    /\ pc = "gate_cuts"
    /\ todo = <<>>
    /\ pc' = "done"
    /\ UNCHANGED <<tape, g, todo, fresh, last, dg, pl, tp, dag, fo, be>>

\* fragments, qg = disconnect_graph(g), on the graph as built or after apply_cuts.
\* Line 37 raises NetworkXUnfeasible on a graph with a cycle.
disconnect ==
    /\ pc \in {"ready", "done"}
    /\ ~dg.called
    /\ \E rot \in 0..MaxRot, rev \in BOOLEAN :
          /\ dg' = IF is_directed_acyclic_graph(g)
                   THEN [called |-> TRUE, raised |-> FALSE,
                         ret |-> disconnect_graph(g, rot, rev)]
                   ELSE [called |-> TRUE, raised |-> TRUE, ret |-> NoResult]
          /\ g' = IF dg'.raised THEN g ELSE dg'.ret.arg
    /\ UNCHANGED <<tape, pc, todo, fresh, last, pl, tp, dag, fo, be>>

\* place_cuts(g, wire_capacity, gate_capacity), in place of apply_cuts, on the graph
\* of a tape without placeholders: the cuts are those find_cuts chooses.
place_cuts_call ==
    /\ pc = "ready"
    /\ NumCuts(tape) = 0
    /\ ~dg.called
    /\ ~pl.called
    /\ \E wire_capacity \in 1..MaxCapacity, gate_capacity \in 1..MaxCapacity :
          LET r == place_cuts(g, wire_capacity, gate_capacity, fresh)
          IN  /\ g' = r.g
              /\ fresh' = r.fresh
              /\ pl' = [called |-> TRUE, raised |-> r.raised,
                        wire_capacity |-> wire_capacity, gate_capacity |-> gate_capacity,
                        wire_cuts |-> find_cuts(g, wire_capacity, gate_capacity).wire_cuts]
    /\ UNCHANGED <<tape, pc, todo, last, dg, tp, dag, fo, be>>

Next ==
    \/ apply_cuts_begin
    \/ wire_cut_step
    \/ gate_cuts_begin
    \/ gate_cut_step
    \/ apply_cuts_return
    \/ disconnect
    \/ place_cuts_call

Spec == Init /\ [][Next]_vars

-----------------------------------------------------------------------------
(* The wire-cut loop of place_cuts on a site *)

\* The sites (op1, op2, wire) of a graph: an edge op1 -> op2 and a wire both act on.
Sites(graph) ==
    {[op1 |-> e.u, op2 |-> e.v, wire |-> w] : e \in EdgeSet(graph), w \in Wires}

WireCutSites(graph) ==
    {s \in Sites(graph) : WireIn(s.wire, s.op1) /\ WireIn(s.wire, s.op2)}

InitSites ==
    /\ Init
    /\ NumCuts(tape) = 0

\* Lines 141-148 of place_cuts with wire_cuts = (site,), the value the line
\* commented out at 128 gives it; find_cuts as it stands returns no site.
place_wire_cuts_call ==
    /\ pc = "ready"
    /\ ~dg.called
    /\ ~pl.called
    /\ \E site \in WireCutSites(g), wire_capacity \in 1..MaxCapacity,
          gate_capacity \in 1..MaxCapacity :
          LET r == PlaceWireCuts([g |-> g, raised |-> FALSE, fresh |-> fresh], <<site>>, 1)
          IN  /\ g' = r.g
              /\ fresh' = r.fresh
              /\ last' = [n |-> NoNode, before |-> g]
              /\ pl' = [called |-> TRUE, raised |-> r.raised,
                        wire_capacity |-> wire_capacity, gate_capacity |-> gate_capacity,
                        wire_cuts |-> <<site>>]
    /\ UNCHANGED <<tape, pc, todo, dg, tp, dag, fo, be>>

NextSites == place_wire_cuts_call

SpecSites == InitSites /\ [][NextSites]_vars

-----------------------------------------------------------------------------
(* dag_to_tape on any graph *)

NodeKinds == {"Operation", "WireCut", "GateCut"}

\* The pairs (i, j) of 1..n in lexicographic order.
AllPairs(n) == [k \in 1..(n * n) |-> <<((k - 1) \div n) + 1, ((k - 1) % n) + 1>>]

\* The graph with nodes 1..n of the kinds ks and with the edges E (pairs of node
\* numbers, self loops among them), added in lexicographic order.
GraphOf(n, ks, E) ==
    LET node(i) == [id |-> i, kind |-> ks[i], wires |-> <<0>>]
        prs == SelectSeq(AllPairs(n), LAMBDA pr : pr \in E)
    IN  [nodes |-> [i \in 1..n |-> node(i)],
         edges |-> [k \in 1..Len(prs) |-> Edge(node(prs[k][1]), node(prs[k][2]), "None", NoPair)]]

\* Every directed graph on at most N nodes, acyclic or not.
Graphs(N) ==
    UNION {{GraphOf(n, ks, E) : ks \in [1..n -> NodeKinds], E \in SUBSET ((1..n) \X (1..n))} :
           n \in 0..N}

\* The variables of apply_cuts, place_cuts and disconnect_graph, at rest.
CutsIdle ==
    /\ pc = "ready"
    /\ todo = <<>>
    /\ last = [n |-> NoNode, before |-> EmptyGraph]
    /\ dg = [called |-> FALSE, raised |-> FALSE, ret |-> NoResult]
    /\ pl = NotPlaced

InitTape ==
    /\ g \in Graphs(MaxNodes)
    /\ tape = <<>>
    /\ fresh = MaxNodes + 1
    /\ CutsIdle
    /\ tp = NotBuilt
    /\ dag = [obs |-> NoObs, graph |-> EmptyGraph, called |-> FALSE]
    /\ fo = NoOperator
    /\ be = NotExecuted

\* tape = dag_to_tape(g)
dag_to_tape_call ==
    /\ ~tp.called
    /\ LET r == dag_to_tape(g)
       IN  tp' = [called |-> TRUE, raised |-> r.raised, tape |-> r.tape]
    /\ UNCHANGED <<tape, g, pc, todo, fresh, last, dg, pl, dag, fo, be>>

NextTape == dag_to_tape_call

SpecTape == InitTape /\ [][NextTape]_vars

-----------------------------------------------------------------------------
(* get_dag on a tape with any observable *)

\* The wires of these tapes.
DagWires == {0, 1, 2}

\* The wires of an operation or of one observable: one wire, or two in ascending order.
DagWireTuples ==
    {<<w>> : w \in DagWires} \cup {t \in DagWires \X DagWires : t[1] < t[2]}

\* The operations of a tape of at most N operations.
DagTapes(N) == UNION {[1..n -> {[kind |-> "Operation", wires |-> w] : w \in DagWireTuples}] : n \in 0..N}

\* The wires of the terms of a tensor product: two or three terms on wires of
\* their own.
TensorTerms ==
    {ts \in UNION {[1..n -> DagWireTuples] : n \in 2..3} :
        \A i, j \in 1..Len(ts) : i # j => SeqToSet(ts[i]) \cap SeqToSet(ts[j]) = {}}

RECURSIVE Concat(_)
Concat(ss) == IF ss = <<>> THEN <<>> ELSE Head(ss) \o Concat(Tail(ss))

\* What the tape measures: a plain observable ([kind, wires, terms = <<>>]) or a
\* Tensor with the wires of its terms.
Observables ==
    {[kind |-> "Observable", wires |-> w, terms |-> <<>>] : w \in DagWireTuples}
    \cup {[kind |-> "Tensor", wires |-> Concat(ts), terms |-> ts] : ts \in TensorTerms}

\* The tape's queue: its operations, then its observable.
Queue(t, o) == Append(t, [kind |-> o.kind, wires |-> o.wires])

\* The observable o of tape t as get_dag reads it.
ObsOf(t, o) ==
    [node |-> TapeNode(Queue(t, o), Len(t) + 1),
     terms |-> [j \in 1..Len(o.terms) |->
                   [id |-> Len(t) + 1 + j, kind |-> "Observable", wires |-> o.terms[j]]]]

InitDag ==
    /\ tape \in DagTapes(MaxDagOps)
    /\ \E o \in Observables :
          dag = [obs |-> ObsOf(tape, o), graph |-> CircuitGraph(Queue(tape, o)),
                 called |-> FALSE]
    /\ g = EmptyGraph
    /\ fresh = 1
    /\ CutsIdle
    /\ tp = NotBuilt
    /\ fo = NoOperator
    /\ be = NotExecuted

\* g = get_dag(tape)
get_dag_call ==
    /\ ~dag.called
    /\ LET r == get_dag(dag.graph, dag.obs)
       IN  /\ g' = r.g
           /\ dag' = [dag EXCEPT !.graph = r.graph, !.called = TRUE]
    /\ UNCHANGED <<tape, pc, todo, fresh, last, dg, pl, tp, fo, be>>

NextDag == get_dag_call

SpecDag == InitDag /\ [][NextDag]_vars

-----------------------------------------------------------------------------
(* fermionic_one (pennylane/hf/dipole.py) *)

Abs(x) == IF x < 0 THEN -x ELSE x

\* anp.argwhere(abs(d) >= cutoff): the index pairs (from 0), row by row.
argwhere(d, cutoff) ==
    LET hit == SelectSeq(AllPairs(Len(d)), LAMBDA pr : Abs(d[pr[1]][pr[2]]) >= cutoff)
    IN  [k \in 1..Len(hit) |-> <<hit[k][1] - 1, hit[k][2] - 1>>]

\* a < b for two Python lists of numbers.
RECURSIVE LexLess(_, _)
LexLess(a, b) ==
    IF b = <<>> THEN FALSE
    ELSE IF a = <<>> THEN TRUE
    ELSE IF Head(a) # Head(b) THEN Head(a) < Head(b)
    ELSE LexLess(Tail(a), Tail(b))

\* sorted(s) for a list of lists.
RECURSIVE sorted(_)
sorted(s) ==
    IF s = <<>> THEN <<>>
    ELSE LET r == sorted(SubSeq(s, 1, Len(s) - 1))
             x == Last(s)
             before == SelectSeq(r, LAMBDA y : ~LexLess(x, y))
             after == SelectSeq(r, LAMBDA y : LexLess(x, y))
         IN  before \o <<x>> \o after

\* s.index(x)
index(s, x) == CHOOSE i \in 1..Len(s) : s[i] = x /\ \A j \in 1..(i - 1) : s[j] # x

\* Lines 334-345: the coefficients and the operators before they are sorted.
FermionicTerms(constant, integral, cutoff) ==
    LET i == argwhere(integral, cutoff)
        picked == [k \in 1..Len(i) |-> integral[i[k][1] + 1][i[k][2] + 1]]
    IN  [coeffs |-> (IF constant # 0 THEN <<constant>> ELSE <<>>) \o picked \o picked,
         operators |-> (IF constant # 0 THEN <<(<<>>)>> ELSE <<>>)
                       \o [k \in 1..Len(i) |-> <<i[k][1] * 2, i[k][2] * 2>>]
                       \o [k \in 1..Len(i) |-> <<i[k][1] * 2 + 1, i[k][2] * 2 + 1>>]]

\* Fault: line 349 as `return coeffs, sorted(operators)`.
fermionic_one_coeffs_unsorted(constant, integral, cutoff) ==
    LET t == FermionicTerms(constant, integral, cutoff)
    IN  [coeffs |-> t.coeffs, operators |-> sorted(t.operators)]

\* Lines 315-349; constant stands for the one element of the array.
fermionic_one(constant, integral, cutoff) ==
    LET t == FermionicTerms(constant, integral, cutoff)
        srt == sorted(t.operators)
        indices_sort == [k \in 1..Len(srt) |-> index(t.operators, srt[k])]
    IN  [coeffs |-> [k \in 1..Len(indices_sort) |-> t.coeffs[indices_sort[k]]],
         operators |-> srt]

Values == (0 - MaxValue)..MaxValue

\* The square matrices of at most N rows.
Matrices(N) == UNION {[1..n -> [1..n -> Values]] : n \in 1..N}

InitFermionic ==
    /\ \E constant \in Values, integral \in Matrices(MaxOrbitals), cutoff \in 0..MaxValue :
          fo = [constant |-> constant, integral |-> integral, cutoff |-> cutoff,
                called |-> FALSE, coeffs |-> <<>>, operators |-> <<>>]
    /\ tape = <<>>
    /\ g = EmptyGraph
    /\ fresh = 1
    /\ CutsIdle
    /\ tp = NotBuilt
    /\ dag = [obs |-> NoObs, graph |-> EmptyGraph, called |-> FALSE]
    /\ be = NotExecuted

\* coeffs, ops = fermionic_one(constant, integral, cutoff)
fermionic_one_call ==
    /\ ~fo.called
    /\ LET r == fermionic_one(fo.constant, fo.integral, fo.cutoff)
       IN  fo' = [fo EXCEPT !.called = TRUE, !.coeffs = r.coeffs, !.operators = r.operators]
    /\ UNCHANGED <<tape, g, pc, todo, fresh, last, dg, pl, tp, dag, be>>

NextFermionic == fermionic_one_call

SpecFermionic == InitFermionic /\ [][NextFermionic]_vars

-----------------------------------------------------------------------------
(* DefaultTask.batch_execute *)

\* A circuit (a tape or a QNode) is known by its number.
Circuits == 1..MaxCircuits

\* The lists of at most N circuits.
CircuitLists(N) == UNION {[1..n -> Circuits] : n \in 0..N}

\* What batch_execute may be handed: a QNode, a list of tapes, or the Future of a
\* list of tapes.
CircuitInputs(N) ==
    {[kind |-> "QNode", tapes |-> <<c>>] : c \in Circuits}
        \cup {[kind |-> k, tapes |-> l] : k \in {"list", "Future"}, l \in CircuitLists(N)}

\* The device of lines 105-122, as far as batch_execute reads it.
_backend == "default.qubit"

_wires == 2

\* Lines 153-156 on a worker: the device's result for the circuit, or the
\* exception of a circuit whose execution fails.
_execute_wrapper(backend, wires, circuit, fails) ==
    [raised |-> circuit \in fails,
     value |-> [backend |-> backend, wires |-> wires, circuit |-> circuit]]

\* The lambda of line 137 on a worker: the results of the tapes, in their order.
ExecuteAll(backend, wires, tapes, fails) ==
    [raised |-> \E i \in 1..Len(tapes) : _execute_wrapper(backend, wires, tapes[i], fails).raised,
     value |-> [i \in 1..Len(tapes) |-> _execute_wrapper(backend, wires, tapes[i], fails).value]]

\* client.submit(fn, backend, wires, arg): the client holds one more task, and the
\* Future returned is known by the place of its task.
Task(fn, arg) == [fn |-> fn, backend |-> _backend, wires |-> _wires, arg |-> arg]

submit(client, fn, arg) == Append(client, Task(fn, arg))

Future(client) == [key |-> Len(client)]

\* What the worker makes of the task behind a Future.
Outcome(client, f, fails) ==
    LET t == client[f.key]
    IN  IF t.fn = "_execute_wrapper"
        THEN LET r == _execute_wrapper(t.backend, t.wires, t.arg[1], fails)
             IN  [raised |-> r.raised, value |-> <<r.value>>]
        ELSE ExecuteAll(t.backend, t.wires, t.arg, fails)

\* client.gather(results): the results of the Futures in their order, the result
\* of the one Future when `results` is a Future; it raises when a task raised.
gather(client, results, fails) ==
    [raised |-> \E i \in 1..Len(results.items) : Outcome(client, results.items[i], fails).raised,
     res |-> IF results.list
             THEN [list |-> TRUE,
                   items |-> [i \in 1..Len(results.items) |->
                                 Outcome(client, results.items[i], fails).value[1]]]
             ELSE [list |-> TRUE, items |-> Outcome(client, results.items[1], fails).value]]

InitTask ==
    /\ \E circuits \in CircuitInputs(MaxCircuits), future \in BOOLEAN,
          gen_report \in BOOLEAN, fails \in SUBSET Circuits :
          be = [NotExecuted EXCEPT !.circuits = circuits, !.future = future,
                                   !.gen_report = gen_report, !.fails = fails,
                                   !.pc = "called"]
    /\ tape = <<>>
    /\ g = EmptyGraph
    /\ fresh = 1
    /\ CutsIdle
    /\ tp = NotBuilt
    /\ dag = [obs |-> NoObs, graph |-> EmptyGraph, called |-> FALSE]
    /\ fo = NoOperator

\* Lines 125-133: the context manager is chosen and entered, results = [].
enter ==
    /\ be.pc = "called"
    /\ be' = [be EXCEPT !.cm = IF be.gen_report THEN "performance_report" ELSE "nullcontext",
                         !.results = [list |-> TRUE, items |-> <<>>],
                         !.pc = "branch"]
    /\ UNCHANGED <<tape, g, pc, todo, fresh, last, dg, pl, tp, dag, fo>>

\* Lines 134-135: `circuit` is a local name of batch_execute (line 139 binds it)
\* that nothing has bound on this path, so evaluating the arguments of submit
\* raises UnboundLocalError; the with block is left.
submit_qnode ==
    /\ be.pc = "branch"
    /\ be.circuits.kind = "QNode"
    /\ be' = [be EXCEPT !.pc = "raised", !.error = "UnboundLocalError", !.cm = "exited"]
    /\ UNCHANGED <<tape, g, pc, todo, fresh, last, dg, pl, tp, dag, fo>>

\* Lines 136-137: one task for the whole Future, and `results` is its Future.
submit_future ==
    /\ be.pc = "branch"
    /\ be.circuits.kind = "Future"
    /\ LET client == submit(be.client, "lambda", be.circuits.tapes)
       IN  be' = [be EXCEPT !.client = client,
                            !.results = [list |-> FALSE, items |-> <<Future(client)>>],
                            !.calls = Append(@, "submit"),
                            !.pc = "submitted"]
    /\ UNCHANGED <<tape, g, pc, todo, fresh, last, dg, pl, tp, dag, fo>>

\* Lines 138-139: the loop over the list begins.
loop_begin ==
    /\ be.pc = "branch"
    /\ be.circuits.kind = "list"
    /\ be' = [be EXCEPT !.idx = 0, !.pc = "loop"]
    /\ UNCHANGED <<tape, g, pc, todo, fresh, last, dg, pl, tp, dag, fo>>

\* Lines 139-140, one iteration.
submit_circuit ==
    /\ be.pc = "loop"
    /\ be.idx < Len(be.circuits.tapes)
    /\ LET circuit == be.circuits.tapes[be.idx + 1]
           client == submit(be.client, "_execute_wrapper", <<circuit>>)
       IN  be' = [be EXCEPT !.client = client,
                            !.results.items = Append(@, Future(client)),
                            !.calls = Append(@, "submit"),
                            !.idx = @ + 1]
    /\ UNCHANGED <<tape, g, pc, todo, fresh, last, dg, pl, tp, dag, fo>>

\* Line 139: the list is exhausted.
loop_end ==
    /\ be.pc = "loop"
    /\ be.idx = Len(be.circuits.tapes)
    /\ be' = [be EXCEPT !.pc = "submitted"]
    /\ UNCHANGED <<tape, g, pc, todo, fresh, last, dg, pl, tp, dag, fo>>

\* Lines 142-143.
return_futures ==
    /\ be.pc = "submitted"
    /\ be.future
    /\ be' = [be EXCEPT !.ret = be.results, !.pc = "returned", !.cm = "exited"]
    /\ UNCHANGED <<tape, g, pc, todo, fresh, last, dg, pl, tp, dag, fo>>

\* Lines 144-145.
secede ==
    /\ be.pc = "submitted"
    /\ ~be.future
    /\ be' = [be EXCEPT !.calls = Append(@, "secede"), !.pc = "seceded"]
    /\ UNCHANGED <<tape, g, pc, todo, fresh, last, dg, pl, tp, dag, fo>>

\* Line 146: gather returns, or raises and the with block and batch_execute are left.
gather_call ==
    /\ be.pc = "seceded"
    /\ LET r == gather(be.client, be.results, be.fails)
       IN  IF r.raised
           THEN be' = [be EXCEPT !.calls = Append(@, "gather"), !.pc = "raised",
                                 !.error = "task", !.cm = "exited"]
           ELSE be' = [be EXCEPT !.calls = Append(@, "gather"), !.ret = r.res,
                                 !.pc = "gathered"]
    /\ UNCHANGED <<tape, g, pc, todo, fresh, last, dg, pl, tp, dag, fo>>

\* Lines 147-148.
rejoin ==
    /\ be.pc = "gathered"
    /\ be' = [be EXCEPT !.calls = Append(@, "rejoin"), !.pc = "returned", !.cm = "exited"]
    /\ UNCHANGED <<tape, g, pc, todo, fresh, last, dg, pl, tp, dag, fo>>

NextTask ==
    \/ enter
    \/ submit_qnode
    \/ submit_future
    \/ loop_begin
    \/ submit_circuit
    \/ loop_end
    \/ return_futures
    \/ secede
    \/ gather_call
    \/ rejoin

SpecTask == InitTask /\ [][NextTask]_vars

-----------------------------------------------------------------------------
(* Vocabulary of the properties *)

\* The index pairs (p, q) of the integrals that reach the cutoff.
Kept ==
    {pq \in (0..(Len(fo.integral) - 1)) \X (0..(Len(fo.integral) - 1)) :
        Abs(fo.integral[pq[1] + 1][pq[2] + 1]) >= fo.cutoff}

\* The operators fermionic_one is to return.
ExpectedOperators ==
    (IF fo.constant # 0 THEN {<<>>} ELSE {})
    \cup {<<2 * pq[1], 2 * pq[2]>> : pq \in Kept}
    \cup {<<2 * pq[1] + 1, 2 * pq[2] + 1>> : pq \in Kept}

\* The nodes that can be reached from a node of S along one edge or more.
RECURSIVE Descendants(_, _, _)
Descendants(gr, S, seen) ==
    LET next == {e.v : e \in {f \in EdgeSet(gr) : f.u \in S}} \ seen
    IN  IF next = {} THEN seen ELSE Descendants(gr, next, seen \cup next)

HasCycle(gr) == \E n \in NodeSet(gr) : n \in Descendants(gr, {n}, {})

\* The graph of the tape get_dag was called on, as the tape built it.
TapeGraph ==
    CircuitGraph(Append(tape, [kind |-> dag.obs.node.kind, wires |-> dag.obs.node.wires]))

\* The place of node n in the tape dag_to_tape returned.
TapeIndex(n) == CHOOSE i \in 1..Len(tp.tape) : tp.tape[i] = n

\* The graph apply_cuts was (or will be) called on.
G0 == get_dag(CircuitGraph(tape), NoObs).g

NodesOfKind(gr, K) == {n \in NodeSet(gr) : n.kind = K}

EdgesOfType(gr, t) == {e \in EdgeSet(gr) : e.type = t}

\* What the last removal added to the graph.
NewNodes == NodeSet(g) \ NodeSet(last.before)

NewEdges == EdgeSet(g) \ EdgeSet(last.before)

\* disconnect_graph has returned.
Disconnected == dg.called /\ ~dg.raised

\* The node sets of the returned fragments.
FragmentNodes == [i \in 1..Len(dg.ret.subgraph_nodes) |-> NodeSet(subgraphs(dg.ret)[i])]

\* The edges (as pairs) that lines 55-70 added to the function's g, which held the
\* edges without a type of the input.
ReconnectionEdges ==
    {<<e.u, e.v>> : e \in EdgeSet(dg.ret.g)} \ {<<e.u, e.v>> : e \in EdgesOfType(g, "None")}

\* The MeasureNodes and PrepareNodes on wire w in the topological order of the full graph.
WireSeq(w) ==
    SelectSeq(topological_sort(g),
              LAMBDA n : n.kind \in {"MeasureNode", "PrepareNode"} /\ n.wires[1] = w)

\* The same, restricted to the nodes of s.
LocalSeq(w, s) == SelectSeq(WireSeq(w), LAMBDA n : n \in s)

\* The first PrepareNode after m on its wire in the full order (NoNode when there is none).
NextPrepare(m) ==
    LET sq == WireSeq(m.wires[1])
        i == CHOOSE k \in 1..Len(sq) : sq[k] = m
        later == {j \in (i + 1)..Len(sq) : sq[j].kind = "PrepareNode"}
    IN  IF later = {} THEN NoNode
        ELSE sq[CHOOSE j \in later : \A j2 \in later : j <= j2]

\* The cut edges of the input of disconnect_graph from fragment i to fragment j (0-based).
CutsBetween(i, j) ==
    {e \in EdgeSet(g) : /\ e.type # "None"
                        /\ e.u \in dg.ret.subgraph_nodes[i + 1]
                        /\ e.v \in dg.ret.subgraph_nodes[j + 1]}

\* The index (0-based) of the fragment that holds node n.
FragmentOf(n) ==
    CHOOSE i \in 0..(Len(dg.ret.subgraph_nodes) - 1) : n \in dg.ret.subgraph_nodes[i + 1]

\* The wires the nodes of a fragment act on.
FragmentWires(s) == UNION {SeqToSet(n.wires) : n \in s}

QuotientEdges(i, j) == {e \in EdgeSet(dg.ret.qg) : e.u = i /\ e.v = j}

\* Every (type, pair) an edge attribute dict holds, at the top and in "contraction".
RECURSIVE Annotations(_)
Annotations(d) == {<<d.type, d.pair>>} \cup UNION {Annotations(c.d) : c \in d.contraction}

\* The number of attribute dicts an edge holds, itself and those in "contraction".
RECURSIVE NumAnnotations(_), NumContracted(_)
NumContracted(C) ==
    IF C = {} THEN 0
    ELSE LET c == CHOOSE y \in C : TRUE
         IN  NumAnnotations(c.d) + NumContracted(C \ {c})

NumAnnotations(d) == 1 + NumContracted(d.contraction)

-----------------------------------------------------------------------------
(* Properties *)

\* C1: after apply_cuts on a DAG that contains WireCut nodes, every MeasureNode has
\* exactly one outgoing "wire_cut" edge, which leads to a PrepareNode on the same
\* wire, and every PrepareNode has exactly one incoming "wire_cut" edge, which comes
\* from a MeasureNode (so no two MeasureNodes share a PrepareNode).
C1_PairingAfterApplyCuts ==
    (pc = "done" /\ NodesOfKind(G0, "WireCut") # {}) =>
        /\ \A m \in NodesOfKind(g, "MeasureNode") :
              LET out == {e \in EdgesOfType(g, "wire_cut") : e.u = m}
              IN  /\ Cardinality(out) = 1
                  /\ \A e \in out : e.v.kind = "PrepareNode" /\ e.v.wires = m.wires
        /\ \A p \in NodesOfKind(g, "PrepareNode") :
              LET in == {e \in EdgesOfType(g, "wire_cut") : e.v = p}
              IN  /\ Cardinality(in) = 1
                  /\ \A e \in in : e.u.kind = "MeasureNode"

\* C2: the node sets of the fragments returned by disconnect_graph are pairwise
\* disjoint, their union is the node set of the input graph, and the quotient graph
\* has exactly len(fragments) nodes.
C2_FragmentPartition ==
    Disconnected =>
        /\ \A i, j \in 1..Len(FragmentNodes) :
              i # j => FragmentNodes[i] \cap FragmentNodes[j] = {}
        /\ UNION {FragmentNodes[i] : i \in 1..Len(FragmentNodes)} = NodeSet(g)
        /\ \A i \in 1..Len(FragmentNodes) :
              Len(subgraphs(dg.ret)[i].nodes) = Cardinality(FragmentNodes[i])
        /\ Len(dg.ret.qg.nodes) = Len(dg.ret.subgraph_nodes)
        /\ Cardinality(NodeSet(dg.ret.qg)) = Len(dg.ret.subgraph_nodes)

\* C2 witness: disconnect_graph returned several fragments of a graph with cut edges.
C2_Witness ==
    /\ Disconnected
    /\ pc = "done"
    /\ Len(dg.ret.subgraph_nodes) >= 2
    /\ EdgesOfType(g, "wire_cut") # {}
    /\ EdgesOfType(g, "gate_cut") # {}

\* C3: the removal of a GateCut on k wires removes the GateCut, produces exactly k
\* OperationNodes, one on each wire of the GateCut, and adds exactly k*(k-1)/2
\* "gate_cut" edges, one between each unordered pair of them, each with the pair
\* (op_i, op_j) as payload.
C3_GateCutRemoval ==
    last.n.kind = "GateCut" =>
        LET k == Len(last.n.wires)
            gate_cut == {e \in NewEdges : e.type = "gate_cut"}
        IN  /\ last.n \notin NodeSet(g)
            /\ Cardinality(NewNodes) = k
            /\ \A i \in 1..k :
                  Cardinality({op \in NewNodes : /\ op.kind = "OperationNode"
                                                 /\ op.wires = <<last.n.wires[i]>>}) = 1
            /\ Cardinality(gate_cut) = (k * (k - 1)) \div 2
            /\ \A e \in gate_cut : e.u \in NewNodes /\ e.v \in NewNodes /\ e.pair = <<e.u, e.v>>
            /\ \A a, b \in NewNodes :
                  a # b => \E e \in gate_cut : {e.u, e.v} = {a, b}

\* The tape holds one cut, a WireCut with a node before and a node after it, and
\* without the WireCut the DAG falls into exactly two parts, the one of the node
\* before and the one of the node after.
TheWireCut == CHOOSE n \in NodesOfKind(G0, "WireCut") : TRUE

Upstream == Component(remove_node(G0, TheWireCut), {predecessors(G0, TheWireCut)[1]})

Downstream == Component(remove_node(G0, TheWireCut), {successors(G0, TheWireCut)[1]})

C4_Case ==
    /\ NumCuts(tape) = 1
    /\ NodesOfKind(G0, "WireCut") # {}
    /\ predecessors(G0, TheWireCut) # <<>>
    /\ successors(G0, TheWireCut) # <<>>
    /\ Upstream \cap Downstream = {}
    /\ Upstream \cup Downstream = NodeSet(G0) \ {TheWireCut}

\* C4: when a WireCut on wire w between A and B is the only connection between the
\* upstream and the downstream part of the DAG, apply_cuts followed by
\* disconnect_graph yields exactly one "wire_cut" edge and exactly two fragments:
\* the upstream part with MeasureNode(w), and PrepareNode(w) with the downstream part.
C4_SingleWireCut ==
    (C4_Case /\ pc = "done" /\ Disconnected) =>
        /\ Cardinality(EdgesOfType(g, "wire_cut")) = 1
        /\ Len(FragmentNodes) = 2
        /\ \E e \in EdgesOfType(g, "wire_cut") :
              /\ e.u.kind = "MeasureNode" /\ e.u.wires = TheWireCut.wires
              /\ e.v.kind = "PrepareNode" /\ e.v.wires = TheWireCut.wires
              /\ SeqToSet(FragmentNodes) = {Upstream \cup {e.u}, Downstream \cup {e.v}}

\* C4 witness: the tape RX(0), WireCut(0), CNOT(0,1), RX(1), cut and disconnected.
C4_Witness ==
    /\ C4_Case /\ pc = "done" /\ Disconnected
    /\ Len(tape) = 4
    /\ tape[1] = [kind |-> "Operation", wires |-> <<0>>]
    /\ tape[2] = [kind |-> "WireCut", wires |-> <<0>>]
    /\ tape[3] = [kind |-> "Operation", wires |-> <<0, 1>>]
    /\ tape[4] = [kind |-> "Operation", wires |-> <<1>>]

\* The only gate on two wires of the tape is a GateCut, and it is the only cut.
C5_Case ==
    /\ NumCuts(tape) = 1
    /\ \E i \in 1..Len(tape) :
          /\ tape[i].kind = "GateCut"
          /\ Len(tape[i].wires) = 2
          /\ \A j \in 1..Len(tape) : j # i => Len(tape[j].wires) = 1

\* C5: for a DAG whose single 2-wire gate is a GateCut, apply_cuts leaves exactly 2
\* OperationNodes and exactly 1 "gate_cut" edge, and disconnect_graph on the result
\* returns exactly 2 fragments.
C5_SingleGateCut ==
    (C5_Case /\ pc \in {"done", "raised"}) =>
        /\ pc = "done"
        /\ Cardinality(NodesOfKind(g, "OperationNode")) = 2
        /\ Cardinality(EdgesOfType(g, "gate_cut")) = 1
        /\ (Disconnected => Len(FragmentNodes) = 2)

C7_UnmatchedWireCutIsSkipped ==
    (/\ last.n.kind = "WireCut"
     /\ \/ SelectSeq(predecessors(last.before, last.n),
                     LAMBDA p : WireIn(last.n.wires[1], p)) = <<>>
        \/ SelectSeq(successors(last.before, last.n),
                     LAMBDA p : WireIn(last.n.wires[1], p)) = <<>>)
    => /\ pc # "raised"
       /\ {e \in NewEdges : e.type = "wire_cut"} = {}

\* C8: when apply_cuts fails, the caller's graph has the nodes and edges it had
\* before the call.
C8_FailedRewriteLeavesGraph ==
    pc = "raised" => NodeSet(g) = NodeSet(G0) /\ EdgeSet(g) = EdgeSet(G0)

\* C9: the quotient graph returned by disconnect_graph has no self-loop.
C9_QuotientHasNoSelfLoop ==
    Disconnected => \A e \in EdgeSet(dg.ret.qg) : e.u # e.v

\* C10: the cut edges from fragment i to fragment j are all kept on the quotient
\* graph's edge i -> j, one annotation (type and pair) per cut edge.
C10_CutAnnotationsKept ==
    Disconnected =>
        \A i, j \in 0..(Len(dg.ret.subgraph_nodes) - 1) :
            CutsBetween(i, j) # {} =>
                /\ Cardinality(QuotientEdges(i, j)) = 1
                /\ \A e \in QuotientEdges(i, j) :
                      /\ Annotations(Data(e)) = {<<c.type, c.pair>> : c \in CutsBetween(i, j)}
                      /\ NumAnnotations(Data(e)) = Cardinality(CutsBetween(i, j))

\* C10 witness: two cut edges lead from one fragment to another one.
C10_Witness ==
    /\ Disconnected
    /\ \E i, j \in 0..(Len(dg.ret.subgraph_nodes) - 1) :
          i # j /\ Cardinality(CutsBetween(i, j)) >= 2

\* C11: every edge without a type of the input of disconnect_graph has both end
\* points in one fragment, and every edge of the quotient graph holds nothing but
\* contracted cut edges: each of its annotations has the type "wire_cut" or
\* "gate_cut" and the pair of a cut edge of the input that leads from the fragment
\* of its source to the fragment of its target; no edge of the quotient graph is
\* without a type.
C11_OnlyCutEdgesBetweenFragments ==
    Disconnected =>
        /\ \A e \in EdgesOfType(g, "None") : FragmentOf(e.u) = FragmentOf(e.v)
        /\ \A e \in EdgeSet(dg.ret.qg) :
              \A a \in Annotations(Data(e)) :
                  /\ a[1] \in {"wire_cut", "gate_cut"}
                  /\ \E c \in EdgeSet(g) :
                        /\ c.type = a[1]
                        /\ c.pair = a[2]
                        /\ c.pair = <<c.u, c.v>>
                        /\ FragmentOf(c.u) = e.u
                        /\ FragmentOf(c.v) = e.v

\* C11 witness: a graph with edges without a type and with cut edges was split in
\* several fragments, and a cut edge joins two of them in the quotient graph.
C11_Witness ==
    /\ Disconnected
    /\ EdgesOfType(g, "None") # {}
    /\ \E e \in EdgeSet(dg.ret.qg) : e.u # e.v

\* C12: after place_cuts(g, wire_capacity, gate_capacity) has returned, no fragment
\* of the graph acts on more than wire_capacity wires or holds more than
\* gate_capacity nodes.
C12_FragmentsWithinCapacity ==
    (pl.called /\ ~pl.raised /\ Disconnected) =>
        \A i \in 1..Len(FragmentNodes) :
            /\ Cardinality(FragmentWires(FragmentNodes[i])) <= pl.wire_capacity
            /\ Cardinality(FragmentNodes[i]) <= pl.gate_capacity

\* C13: dag_to_tape raises instead of returning a tape when the graph has a cycle,
\* and when the graph holds a WireCut or a GateCut node.
C13_DagToTapeRejectsBadGraphs ==
    (/\ tp.called
     /\ \/ HasCycle(g)
        \/ NodesOfKind(g, "WireCut") \cup NodesOfKind(g, "GateCut") # {})
    => tp.raised

\* C14: on an acyclic graph dag_to_tape returns a sequence that holds every node of
\* the graph exactly once and in which u comes before v for every edge u -> v.
C14_TapeIsTopologicalOrder ==
    (tp.called /\ ~HasCycle(g)) =>
        /\ ~tp.raised
        /\ Len(tp.tape) = Cardinality(NodeSet(g))
        /\ SeqToSet(tp.tape) = NodeSet(g)
        /\ \A e \in EdgeSet(g) : TapeIndex(e.u) < TapeIndex(e.v)

\* C14 witness: a tape was built from an acyclic graph on three nodes whose edges
\* force an order other than the order of the nodes in the graph.
C14_Witness ==
    /\ tp.called
    /\ ~HasCycle(g)
    /\ Len(g.nodes) = 3
    /\ Cardinality(EdgeSet(g)) >= 2
    /\ tp.tape # g.nodes

\* C15: the graph apply_cuts works on, built from a tape and so acyclic, is acyclic
\* after every removal of a WireCut and of a GateCut, the "wire_cut" and
\* "gate_cut" edges included.
C15_AcyclicThroughoutApplyCuts ==
    HasCycle(g) => HasCycle(G0)

\* C15 witness: apply_cuts has removed a WireCut and a GateCut and left cut edges
\* of both types.
C15_Witness ==
    /\ pc = "done"
    /\ last.n.kind = "GateCut"
    /\ EdgesOfType(g, "wire_cut") # {}
    /\ EdgesOfType(g, "gate_cut") # {}
    /\ ~HasCycle(G0)

C17_QuotientNodesAreFragmentIndices ==
    Disconnected =>
        /\ NodeSet(dg.ret.qg) = 0..(Len(FragmentNodes) - 1)
        /\ \A e \in EdgeSet(dg.ret.qg) :
              \E c \in EdgeSet(g) :
                  /\ c.type # "None"
                  /\ c.u \in FragmentNodes[e.u + 1]
                  /\ c.v \in FragmentNodes[e.v + 1]

\* C17 witness: three fragments or more, with quotient edges between them.
C17_Witness ==
    /\ Disconnected
    /\ Len(FragmentNodes) >= 3
    /\ Cardinality({e \in EdgeSet(dg.ret.qg) : e.u # e.v}) >= 2

\* C18: in apply_cuts no removal of a GateCut runs while a WireCut is in the graph:
\* the loop over the GateCut nodes starts, and each of its removals is called, on a
\* graph without WireCut nodes.
C18_WireCutsBeforeGateCuts ==
    /\ pc = "gate_cuts" => NodesOfKind(g, "WireCut") = {}
    /\ last.n.kind = "GateCut" => NodesOfKind(last.before, "WireCut") = {}

\* C18 witness: a GateCut was removed from a graph that held a WireCut at the call
\* of apply_cuts.
C18_Witness ==
    /\ last.n.kind = "GateCut"
    /\ NodesOfKind(G0, "WireCut") # {}

\* C19: for a tape whose observable is a tensor product, the graph get_dag returns
\* lacks the node of the tensor product and has every term as a node; a term t has
\* an incoming edge from p exactly when p was a predecessor of the tensor product
\* and acts on a wire of t; and the tape's own graph is as it was.
C19_TensorObservableSplit ==
    (dag.called /\ isinstance(dag.obs.node, "Tensor")) =>
        /\ ~has_node(g, dag.obs.node)
        /\ \A j \in 1..Len(dag.obs.terms) :
              LET t == dag.obs.terms[j]
              IN  /\ has_node(g, t)
                  /\ {e.u : e \in {f \in EdgeSet(g) : f.v = t}}
                        = {p \in SeqToSet(predecessors(TapeGraph, dag.obs.node)) :
                              SeqToSet(p.wires) \cap SeqToSet(t.wires) # {}}
        /\ dag.graph = TapeGraph

\* C19 witness: get_dag split a tensor product that had two predecessors or more,
\* one of which acts on wires of two terms.
C19_Witness ==
    /\ dag.called
    /\ isinstance(dag.obs.node, "Tensor")
    /\ Len(predecessors(TapeGraph, dag.obs.node)) >= 2
    /\ \E p \in NodeSet(g) :
          Cardinality({e \in EdgeSet(g) : e.u = p /\ e.v \in SeqToSet(dag.obs.terms)}) >= 2

\* C20: fermionic_one returns as many coefficients as operators; the operators are,
\* in ascending lexicographic order and each once, [] when the constant is not zero
\* and [2p, 2q] and [2p+1, 2q+1] for every (p, q) with |integral[p][q]| >= cutoff;
\* the coefficient at the place of [] is the constant, the one at the place of
\* [2p, 2q] and of [2p+1, 2q+1] is integral[p][q].
C20_FermionicOne ==
    fo.called =>
        /\ Len(fo.coeffs) = Len(fo.operators)
        /\ SeqToSet(fo.operators) = ExpectedOperators
        /\ \A k \in 1..(Len(fo.operators) - 1) : LexLess(fo.operators[k], fo.operators[k + 1])
        /\ \A k \in 1..Len(fo.operators) :
              LET o == fo.operators[k]
              IN  fo.coeffs[k] = IF o = <<>> THEN fo.constant
                                 ELSE fo.integral[(o[1] \div 2) + 1][(o[2] \div 2) + 1]

\* C20 witness: a constant, an integral below the cutoff, and two integrals of
\* different value that reach it.
C20_Witness ==
    /\ fo.called
    /\ fo.constant # 0
    /\ Len(fo.integral) = 2
    /\ Abs(fo.integral[1][1]) < fo.cutoff
    /\ Abs(fo.integral[1][2]) >= fo.cutoff
    /\ Abs(fo.integral[2][1]) >= fo.cutoff
    /\ fo.integral[1][2] # fo.integral[2][1]
    /\ Len(fo.operators) = 1 + 2 * Cardinality(Kept)

\* The predecessors and the successors of the GateCut last removed that act on
\* wire w, in the order of its predecessor and successor lists.
PredsOn(w) == SelectSeq(predecessors(last.before, last.n), LAMBDA p : WireIn(w, p))

SuccsOn(w) == SelectSeq(successors(last.before, last.n), LAMBDA p : WireIn(w, p))

\* C21: right after the removal of a GateCut n, the OperationNode made for wire w
\* has one incoming edge without a type, from the last predecessor of n that acts
\* on w, and one outgoing edge without a type, to the first successor of n that
\* acts on w; every other edge at it is a "gate_cut" edge that joins it to another
\* OperationNode made by the same removal.
C21_OperationNodeSplicedOnItsWire ==
    last.n.kind = "GateCut" =>
        \A op \in NewNodes :
            LET w == op.wires[1]
                at == {e \in EdgeSet(g) : e.u = op \/ e.v = op}
            IN  /\ op.kind = "OperationNode"
                /\ WireIn(w, last.n)
                /\ {e \in at : e.type = "None" /\ e.v = op}
                      = {Edge(Last(PredsOn(w)), op, "None", NoPair)}
                /\ {e \in at : e.type = "None" /\ e.u = op}
                      = {Edge(op, Head(SuccsOn(w)), "None", NoPair)}
                /\ \A e \in at :
                      e.type # "None" =>
                          /\ e.type = "gate_cut"
                          /\ {e.u, e.v} \subseteq NewNodes
                          /\ e.u # e.v

\* C21 witness: a GateCut on two wires was removed, and on one of its wires it had
\* two predecessors to choose from.
C21_Witness ==
    /\ last.n.kind = "GateCut"
    /\ pc # "raised"
    /\ Cardinality(NewNodes) = 2
    /\ \E op \in NewNodes : Len(PredsOn(op.wires[1])) >= 2

C22_WireCutSiteNodes ==
    pl.called =>
        \A k \in 1..Len(pl.wire_cuts) :
            LET site == pl.wire_cuts[k]
            IN  \E meas, prep \in NewNodes :
                    /\ meas.kind = "MeasureNode" /\ meas.wires = <<site.wire>>
                    /\ prep.kind = "PrepareNode" /\ prep.wires = <<site.wire>>
                    /\ Edge(site.op1, meas, "None", NoPair) \in EdgeSet(g)
                    /\ Edge(prep, site.op2, "None", NoPair) \in EdgeSet(g)
                    /\ Edge(meas, prep, "wire_cut", <<meas, prep>>) \in EdgeSet(g)

\* The place of node n in the topological order of the full graph.
TopoIndex(n) ==
    LET order == topological_sort(g)
    IN  CHOOSE k \in 1..Len(order) : order[k] = n

\* C23: every edge that disconnect_graph adds joins a MeasureNode or PrepareNode to
\* another one on the same wire and in the same fragment, and leads from the
\* earlier to the later of the two in the topological order of the full graph;
\* the added edges leave each fragment's nodes as they were and every returned
\* fragment without a cycle.
C23_ReconnectionWithinFragment ==
    Disconnected =>
        /\ \A r \in ReconnectionEdges :
              /\ {r[1].kind, r[2].kind} \subseteq {"MeasureNode", "PrepareNode"}
              /\ r[1].wires = r[2].wires
              /\ FragmentOf(r[1]) = FragmentOf(r[2])
              /\ TopoIndex(r[1]) < TopoIndex(r[2])
        /\ SeqToSet(weakly_connected_components(dg.ret.g)) = SeqToSet(dg.ret.subgraph_nodes)
        /\ \A i \in 1..Len(dg.ret.subgraph_nodes) :
              /\ ~HasCycle(subgraphs(dg.ret)[i])
              /\ FragmentNodes[i] = dg.ret.subgraph_nodes[i]

\* C23 witness: two fragments were returned and an edge was added inside one of
\* them, next to a cut that leads to the other.
C23_Witness ==
    /\ Disconnected
    /\ Len(dg.ret.subgraph_nodes) = 2
    /\ ReconnectionEdges # {}
    /\ CutsBetween(0, 1) \cup CutsBetween(1, 0) # {}

\* batch_execute has returned or raised.
Left == be.pc \in {"returned", "raised"}

\* The calls of kind c among the calls made so far.
CallsOf(c) == SelectSeq(be.calls, LAMBDA x : x = c)

\* C24: batch_execute submits one task per circuit: for a list of n circuits the
\* client holds n tasks in list order and the i-th entry returned is the Future of
\* the i-th task (future=True) or the result of the i-th circuit (otherwise); for a
\* QNode the client holds one task, for that QNode.
C24_OneTaskPerCircuit ==
    Left =>
        LET tapes == be.circuits.tapes
        IN  /\ be.circuits.kind \in {"list", "QNode"} =>
                  be.client = [i \in 1..Len(tapes) |-> Task("_execute_wrapper", <<tapes[i]>>)]
            /\ (be.circuits.kind = "list" /\ be.pc = "returned") =>
                  /\ Len(be.ret.items) = Len(tapes)
                  /\ \A i \in 1..Len(tapes) :
                        IF be.future
                        THEN be.ret.items[i] = [key |-> i]
                        ELSE be.ret.items[i].circuit = tapes[i]

\* C24, the part that holds: the list of circuits.
C24_OneTaskPerListedCircuit ==
    (Left /\ be.circuits.kind = "list") =>
        LET tapes == be.circuits.tapes
        IN  /\ be.client = [i \in 1..Len(tapes) |-> Task("_execute_wrapper", <<tapes[i]>>)]
            /\ be.pc = "returned" =>
                  /\ Len(be.ret.items) = Len(tapes)
                  /\ \A i \in 1..Len(tapes) :
                        IF be.future
                        THEN be.ret.items[i] = [key |-> i]
                        ELSE be.ret.items[i].circuit = tapes[i]

\* C25: when batch_execute is left, with future=False and the tasks submitted it
\* has called secede once after the last submit, then gather, then rejoin once,
\* whether gather returned or raised; with future=True, or when nothing was
\* submitted, it has called neither secede nor rejoin.
C25_SecedeRejoinPaired ==
    Left =>
        IF be.future \/ be.error = "UnboundLocalError"
        THEN CallsOf("secede") = <<>> /\ CallsOf("rejoin") = <<>>
        ELSE be.calls = CallsOf("submit") \o <<"secede", "gather", "rejoin">>

\* C25, the part that holds: secede once after the last submit and before gather,
\* rejoin once when gather returned, neither with future=True.
C25_SecedeAndRejoinUnlessRaised ==
    Left =>
        IF be.future \/ be.error = "UnboundLocalError"
        THEN CallsOf("secede") = <<>> /\ CallsOf("rejoin") = <<>>
        ELSE be.calls = CallsOf("submit") \o
                            (IF be.pc = "raised" THEN <<"secede", "gather">>
                             ELSE <<"secede", "gather", "rejoin">>)

====
